---- MODULE Spec2Model ----
(***************************************************************************)
(* Model of icmx/asteroid-dumper-draft: the retrying HttpClient, the       *)
(* dataToLines transform, the Concurrency scheduler and the Fetcher that   *)
(* composes them (src/utils.js), with the driver copies of src/index.js.   *)
(***************************************************************************)
EXTENDS Integers, Sequences, FiniteSets, TLC

\* ---------------------------------------------------------------- bounds
MaxTasks == 3
MaxWidth == 4

\* ------------------------------------------------------------- utilities
Min(a, b) == IF a < b THEN a ELSE b

SetMax(S) == CHOOSE x \in S : \A y \in S : y <= x

\* ------------------------------------------------------------- variables
VARIABLES
  promises,    \* Concurrency.#promises: the task list (a sequence, slot i is promises[i+1])
  results,     \* Concurrency.#results: a sparse array, a function from the written indices
  index,       \* Concurrency.#index
  executing,   \* the promises pushed by run: one chain of #runOne calls per entry
  runState,    \* the promise returned by run: "new", "awaiting", "resolved", "rejected"
  runValue,    \* what that promise settled with
  runBatch,    \* options.batchSize of the run call (0 before it)
  invoked,     \* number of times each task function has been called
  concurrent,  \* number of task promises that are pending
  writes,      \* number of assignments this.#results[index] = result made to each slot
  claimed,     \* the values of nextIndex the chains read from #index, in order
  lateSettled, \* number of task calls that settled after run had rejected
  lateStarted, \* number of task calls that were started after run had rejected
  runCalls,    \* one entry per call of run: what invoked and #index were when it was called
  hcOptions,   \* the options argument of the constructor / of httpGet
  hcState,     \* the HttpClient object: "none", "constructed", or "TypeError" (constructor threw)
  hcRetries,   \* HttpClient.#retries / httpGet's retries
  hcTimeout,   \* HttpClient.#timeout / httpGet's timeout
  hcKind,      \* "HttpClient" (utils.js) or "httpGet" (index.js)
  getState,    \* the get call: "idle", "fetching", "decoding", "returned", "thrown"
  getUrl,      \* its url argument
  getI,        \* its loop variable i
  response,    \* the response of the current attempt while its body is decoded
  fetchCalls,  \* the calls made to fetch: <<url, timeout>> each
  outcomes,    \* how each settled call of fetch settled: a response or a rejection
  failures,    \* the errors caught by the catch block, in order
  warnings,    \* the console.warn messages
  getValue,    \* the value get returned or the error it threw
  data,        \* the payload: [date, rates], rates being the entries of the object in order
  quotes,      \* options.quotes / Fetcher.#quotes / CONFIG.currencies
  lines,       \* the array dataToLines returned
  linesState,  \* "input" before dataToLines has run, "output" after
  fCaller,     \* "Fetcher" (utils.js Fetcher.run) or "fetchLines" (index.js)
  fState,      \* the promise of Fetcher.run: "idle", "getting", "running", "resolved", "rejected"
  fValue,      \* the error it rejected with
  clientCalls, \* the urls passed to the client's get
  clientError, \* the error the client's get rejected with
  pathCalls,   \* the quotes passed to options.path / options.name
  processEnv,  \* process.env: a function from the names that are set to their values
  envName,     \* the argument of the env call
  envState,    \* the env call: "idle", "returned", "thrown"
  envValue     \* the value env returned or the error it threw

concVars == <<promises, results, index, executing, runState, runValue,
              runBatch, invoked, concurrent, writes, claimed, lateSettled,
              lateStarted, runCalls>>

httpVars == <<hcOptions, hcState, hcRetries, hcTimeout, hcKind, getState,
              getUrl, getI, response, fetchCalls, outcomes, failures, warnings,
              getValue>>

lineVars == <<data, quotes, lines, linesState>>

fetchVars == <<fCaller, fState, fValue, clientCalls, clientError, pathCalls>>

envVars == <<processEnv, envName, envState, envValue>>

vars == <<concVars, httpVars, lineVars, fetchVars, envVars>>

\* ------------------------------------------------- Concurrency (utils.js)
Undefined == [t |-> "undefined"]

NumTasks == Len(promises)

\* The value the k-th call of the task in a slot resolves with, and the
\* error it rejects with.
TaskValue(slot, k) == [task |-> slot, call |-> k]

TaskError(slot, k) == [error |-> "task", task |-> slot, call |-> k]

\* results.length of the sparse array
ArrayLength(arr) == IF DOMAIN arr = {} THEN 0 ELSE SetMax(DOMAIN arr) + 1

\* arr[i] = v
ArraySet(arr, i, v) ==
  [j \in (DOMAIN arr) \cup {i} |-> IF j = i THEN v ELSE arr[j]]

\* [...arr]: a dense copy, holes read as undefined
Spread(arr) ==
  [j \in 1..ArrayLength(arr) |->
      IF (j - 1) \in DOMAIN arr THEN arr[j - 1] ELSE Undefined]

\* Faulty variant of Size: the width is ignored, every task starts at once
SizeAll(batchSize, n) == n

\* const size = Math.min(options.batchSize, this.#promises.length)
Size(batchSize, n) == Min(batchSize, n)

\* The slots run() hands to #runOne in its for loop
InitialSlots(batchSize, n) == 0 .. (Size(batchSize, n) - 1)

\* new Concurrency(promises)
ConcConstructor(tasks) ==
  /\ promises = tasks
  /\ results = << >>
  /\ index = 0
  /\ executing = << >>
  /\ runState = "new"
  /\ runValue = Undefined
  /\ runBatch = 0
  /\ invoked = [s \in 0 .. (Len(tasks) - 1) |-> 0]
  /\ concurrent = 0
  /\ writes = [s \in 0 .. (Len(tasks) - 1) |-> 0]
  /\ claimed = << >>
  /\ lateSettled = 0
  /\ lateStarted = 0
  /\ runCalls = << >>

\* The for loop of run over the tasks of an instance whose tasks have been
\* called inv times and of which conc are pending: every #runOne(i) runs up
\* to its own await, i.e. calls its task.
RunLoop(tasks, inv, conc, batchSize) ==
  /\ executing' = [w \in InitialSlots(batchSize, Len(tasks)) |->
                      [slot |-> w, call |-> inv[w] + 1, st |-> "pending"]]
  /\ invoked' = [s \in DOMAIN inv |->
                    IF s \in InitialSlots(batchSize, Len(tasks))
                    THEN inv[s] + 1 ELSE inv[s]]
  /\ concurrent' = conc + Cardinality(InitialSlots(batchSize, Len(tasks)))
  /\ runState' = "awaiting"
  /\ runBatch' = batchSize

\* run(options) up to its await, called on an instance on which no run is
\* in progress: a new one, or one whose earlier run has settled and whose
\* chains have all ended. Nothing but the loop touches the fields.
Run(batchSize) ==
  /\ runState \in {"new", "resolved", "rejected"}
  /\ concurrent = 0
  /\ RunLoop(promises, invoked, concurrent, batchSize)
  /\ runCalls' = Append(runCalls, [invoked |-> invoked, index |-> index])
  /\ runValue' = Undefined
  /\ lateSettled' = 0
  /\ lateStarted' = 0
  /\ UNCHANGED <<promises, results, index, writes, claimed>>

\* Faulty variant of MayClaim: the guard lets the last index through
MayClaimLate(idx, n) == idx < n

\* Faulty variant of MayClaim: the chains stop claiming one slot early
MayClaimShort(idx, n) == idx < n - 2

\* Faulty variant of MayClaim: no chain claims once run has rejected
MayClaimUnlessRejected(idx, n) == idx < n - 1 /\ runState # "rejected"

\* The guard of #runOne: may the chain claim another slot?
MayClaim(idx, n) == idx < n - 1

\* Faulty variant of NextIndex: the increment is lost
NextIndexSame(idx) == idx

\* this.#index++; const nextIndex = this.#index
NextIndex(idx) == idx + 1

\* #runOne resumed after its task resolved: store the result, then either
\* claim the next slot and call its task, or finish the chain.
TaskResolve(w) ==
  /\ w \in DOMAIN executing
  /\ executing[w].st = "pending"
  /\ LET slot == executing[w].slot
         nextIndex == NextIndex(index)
     IN /\ results' = ArraySet(results, slot, TaskValue(slot, executing[w].call))
        /\ writes' = [s \in (DOMAIN writes) \cup {slot} |->
                        IF s = slot
                        THEN (IF s \in DOMAIN writes THEN writes[s] ELSE 0) + 1
                        ELSE writes[s]]
        /\ IF MayClaim(index, NumTasks)
           THEN /\ index' = nextIndex
                /\ claimed' = Append(claimed, nextIndex)
                /\ IF nextIndex < NumTasks
                   THEN /\ executing' = [executing EXCEPT ![w] =
                              [slot |-> nextIndex,
                               call |-> invoked[nextIndex] + 1,
                               st |-> "pending"]]
                        /\ invoked' = [invoked EXCEPT ![nextIndex] = @ + 1]
                        /\ concurrent' = concurrent
                        /\ lateStarted' = IF runState = "rejected"
                                          THEN lateStarted + 1 ELSE lateStarted
                   ELSE /\ executing' = [executing EXCEPT ![w].st = "fulfilled"]
                        /\ concurrent' = concurrent - 1
                        /\ UNCHANGED <<invoked, lateStarted>>
           ELSE /\ executing' = [executing EXCEPT ![w].st = "fulfilled"]
                /\ concurrent' = concurrent - 1
                /\ UNCHANGED <<index, invoked, claimed, lateStarted>>
  /\ lateSettled' = IF runState = "rejected" THEN lateSettled + 1 ELSE lateSettled
  /\ UNCHANGED <<promises, runState, runValue, runBatch, runCalls>>

\* #runOne resumed after its task rejected: the await throws, nothing is
\* stored or claimed, and the whole chain of #runOne calls rejects.
TaskReject(w) ==
  /\ w \in DOMAIN executing
  /\ executing[w].st = "pending"
  /\ executing' = [executing EXCEPT ![w].st = "rejected"]
  /\ concurrent' = concurrent - 1
  /\ lateSettled' = IF runState = "rejected" THEN lateSettled + 1 ELSE lateSettled
  /\ UNCHANGED <<promises, results, index, runState, runValue, runBatch, invoked,
                 writes, claimed, lateStarted, runCalls>>

\* Faulty variant of AllReject: the rejection cancels the pending chains
AllRejectCancel(w) ==
  /\ runState = "awaiting"
  /\ w \in DOMAIN executing
  /\ executing[w].st = "rejected"
  /\ runState' = "rejected"
  /\ runValue' = TaskError(executing[w].slot, executing[w].call)
  /\ executing' = [v \in DOMAIN executing |->
                      IF executing[v].st = "pending"
                      THEN [executing[v] EXCEPT !.st = "cancelled"]
                      ELSE executing[v]]
  /\ concurrent' = 0
  /\ UNCHANGED <<promises, results, index, runBatch, invoked, writes, claimed,
                 lateSettled, lateStarted, runCalls>>

\* await Promise.all(executing) throws: run rejects with the error of the
\* first rejected entry Promise.all sees.
AllReject(w) ==
  /\ runState = "awaiting"
  /\ w \in DOMAIN executing
  /\ executing[w].st = "rejected"
  /\ runState' = "rejected"
  /\ runValue' = TaskError(executing[w].slot, executing[w].call)
  /\ UNCHANGED <<promises, results, index, executing, runBatch, invoked,
                 concurrent, writes, claimed, lateSettled, lateStarted, runCalls>>

\* Faulty variant of AllResolve: Promise.any instead of Promise.all
AllResolveFirst ==
  /\ runState = "awaiting"
  /\ \/ DOMAIN executing = {}
     \/ \E w \in DOMAIN executing : executing[w].st = "fulfilled"
  /\ runState' = "resolved"
  /\ runValue' = Spread(results)
  /\ UNCHANGED <<promises, results, index, executing, runBatch, invoked,
                 concurrent, writes, claimed, lateSettled, lateStarted, runCalls>>

\* Faulty variant of AllResolve: Promise.allSettled instead of Promise.all
AllResolveSettled ==
  /\ runState = "awaiting"
  /\ \A w \in DOMAIN executing : executing[w].st # "pending"
  /\ runState' = "resolved"
  /\ runValue' = Spread(results)
  /\ UNCHANGED <<promises, results, index, executing, runBatch, invoked,
                 concurrent, writes, claimed, lateSettled, lateStarted, runCalls>>

\* await Promise.all(executing) returns: return [...this.#results]
AllResolve ==
  /\ runState = "awaiting"
  /\ \A w \in DOMAIN executing : executing[w].st = "fulfilled"
  /\ runState' = "resolved"
  /\ runValue' = Spread(results)
  /\ UNCHANGED <<promises, results, index, executing, runBatch, invoked,
                 concurrent, writes, claimed, lateSettled, lateStarted, runCalls>>

\* Everything of the scheduler in its state before any Concurrency exists
ConcIdle == ConcConstructor(<< >>)

\* process.env with nothing set, and env not called
EnvIdle ==
  /\ processEnv = << >>
  /\ envName = ""
  /\ envState = "idle"
  /\ envValue = Undefined

\* Everything of the Fetcher in its state before run is called
FetchIdle ==
  /\ fCaller = "Fetcher"
  /\ fState = "idle"
  /\ fValue = Undefined
  /\ clientCalls = << >>
  /\ clientError = Undefined
  /\ pathCalls = << >>

\* Everything of dataToLines in its state before any payload exists
LinesIdle ==
  /\ data = [date |-> "", rates |-> << >>]
  /\ quotes = << >>
  /\ lines = << >>
  /\ linesState = "input"

\* ------------------------------------------------- HttpClient (utils.js)
MaxRetries == 2

DefaultRetries == 0

DefaultTimeout == 10000

\* options.key || d: an absent field and 0 take the default
OrDefault(options, key, d) ==
  IF key \in DOMAIN options /\ options[key] # 0 THEN options[key] ELSE d

\* options?.key || d
OptOrDefault(options, key, d) ==
  IF options = Undefined THEN d ELSE OrDefault(options, key, d)

HttpIdle ==
  /\ getState = "idle"
  /\ getUrl = ""
  /\ getI = 0
  /\ response = Undefined
  /\ fetchCalls = << >>
  /\ outcomes = << >>
  /\ failures = << >>
  /\ warnings = << >>
  /\ getValue = Undefined

HttpNone ==
  /\ hcOptions = Undefined
  /\ hcState = "none"
  /\ hcKind = "HttpClient"
  /\ hcRetries = 0
  /\ hcTimeout = 0
  /\ HttpIdle

getVars == <<getState, getUrl, getI, response, fetchCalls, outcomes, failures,
             warnings, getValue>>

clientVars == <<hcOptions, hcState, hcRetries, hcTimeout, hcKind>>

\* May the constructor read options.retries: it throws a TypeError when
\* options is undefined.
CanReadOptions(options) == options # Undefined

\* new HttpClient(options)
HttpClientConstructor(options) ==
  /\ hcState = "none"
  /\ hcOptions' = options
  /\ hcKind' = "HttpClient"
  /\ IF CanReadOptions(options)
     THEN /\ hcState' = "constructed"
          /\ hcRetries' = OrDefault(options, "retries", DefaultRetries)
          /\ hcTimeout' = OrDefault(options, "timeout", DefaultTimeout)
     ELSE /\ hcState' = "TypeError"
          /\ UNCHANGED <<hcRetries, hcTimeout>>
  /\ UNCHANGED getVars

StatusText(status) ==
  CASE status = 200 -> "OK"
    [] status = 404 -> "Not Found"
    [] OTHER -> "Internal Server Error"

\* Faulty variant of Ok: only server errors are not ok
OkBelow500(resp) == resp.status >= 200 /\ resp.status <= 499

\* response.ok
Ok(resp) == resp.status >= 200 /\ resp.status <= 299

\* new Error(`HTTP ${response.status}: ${response.statusText} on "${url}"`)
HttpStatusError(resp, url) ==
  [error |-> "HTTP", status |-> resp.status, statusText |-> resp.statusText,
   url |-> url]

\* Faulty variant of WillRetry: the last attempt is retried like the others
WillRetryAlways(i, retries) == i <= retries

\* Is attempt i followed by another one: the test of the catch block
WillRetry(i, retries) == i < retries

\* Faulty variant of LoopCond: retries attempts in all
LoopCondShort(i, retries) == i < retries

\* The condition of the for loop
LoopCond(i, retries) == i < retries + 1

\* The second number of the warning: retries + 1 in HttpClient.get,
\* options.retries in httpGet
WarnTotal == IF hcKind = "HttpClient" THEN hcRetries + 1 ELSE hcRetries

\* Faulty variant of Catch: a wait is started before the next attempt
CatchThenWait(error) ==
  /\ failures' = Append(failures, error)
  /\ response' = Undefined
  /\ IF WillRetry(getI, hcRetries)
     THEN /\ warnings' = Append(warnings,
                 [attempt |-> getI + 1, total |-> WarnTotal, url |-> getUrl])
          /\ getI' = getI + 1
          /\ getState' = "waiting"
          /\ UNCHANGED <<getValue, fetchCalls>>
     ELSE /\ getState' = "thrown"
          /\ getValue' = error
          /\ UNCHANGED <<warnings, getI, fetchCalls>>
  /\ UNCHANGED <<clientVars, getUrl>>

\* The catch block, and what follows it in the loop: a warning, i++ and the
\* next call of fetch, or the error rethrown.
Catch(error) ==
  /\ failures' = Append(failures, error)
  /\ response' = Undefined
  /\ IF WillRetry(getI, hcRetries)
     THEN /\ warnings' = Append(warnings,
                 [attempt |-> getI + 1, total |-> WarnTotal, url |-> getUrl])
          /\ getI' = getI + 1
          /\ IF LoopCond(getI + 1, hcRetries)
             THEN /\ fetchCalls' = Append(fetchCalls, <<getUrl, hcTimeout>>)
                  /\ getState' = "fetching"
             ELSE /\ getState' = "returned"
                  /\ UNCHANGED fetchCalls
          /\ UNCHANGED getValue
     ELSE /\ getState' = "thrown"
          /\ getValue' = error
          /\ UNCHANGED <<warnings, getI, fetchCalls>>
  /\ UNCHANGED <<clientVars, getUrl>>

\* get(url) up to its first await: the first call of fetch
Get(url) ==
  /\ hcState = "constructed"
  /\ getState = "idle"
  /\ getUrl' = url
  /\ getI' = 0
  /\ IF LoopCond(0, hcRetries)
     THEN /\ fetchCalls' = Append(fetchCalls, <<url, hcTimeout>>)
          /\ getState' = "fetching"
     ELSE /\ getState' = "returned"
          /\ UNCHANGED fetchCalls
  /\ UNCHANGED <<clientVars, response, outcomes, failures, warnings, getValue>>

\* httpGet(url, options) of the driver, up to its first await
HttpGet(url, options) ==
  /\ hcState = "none"
  /\ getState = "idle"
  /\ hcOptions' = options
  /\ hcKind' = "httpGet"
  /\ hcState' = "constructed"
  /\ hcRetries' = OptOrDefault(options, "retries", DefaultRetries)
  /\ hcTimeout' = OptOrDefault(options, "timeout", DefaultTimeout)
  /\ getUrl' = url
  /\ getI' = 0
  /\ IF LoopCond(0, hcRetries')
     THEN /\ fetchCalls' = Append(fetchCalls, <<url, hcTimeout'>>)
          /\ getState' = "fetching"
     ELSE /\ getState' = "returned"
          /\ UNCHANGED fetchCalls
  /\ UNCHANGED <<response, outcomes, failures, warnings, getValue>>

\* await fetch(...) throws: a transport failure or the AbortSignal timeout
FetchReject(kind) ==
  /\ getState = "fetching"
  /\ outcomes' = Append(outcomes, [settled |-> "rejected", status |-> 0])
  /\ Catch([error |-> kind, attempt |-> Len(fetchCalls)])

\* await fetch(...) returns a response
FetchResolve(resp) ==
  /\ getState = "fetching"
  /\ outcomes' = Append(outcomes,
                         [settled |-> "response", status |-> resp.status])
  /\ IF ~Ok(resp)
     THEN Catch(HttpStatusError(resp, getUrl))
     ELSE /\ getState' = "decoding"
          /\ response' = resp
          /\ UNCHANGED <<clientVars, getUrl, getI, fetchCalls, failures,
                         warnings, getValue>>

\* await response.json() returns the decoded body: return data
JsonResolve ==
  /\ getState = "decoding"
  /\ response.body # "malformed"
  /\ getState' = "returned"
  /\ getValue' = [json |-> response.body, attempt |-> Len(fetchCalls)]
  /\ response' = Undefined
  /\ UNCHANGED <<clientVars, getUrl, getI, fetchCalls, outcomes, failures,
                 warnings>>

\* Faulty variant of JsonReject: the decoding error leaves get at once
JsonRejectThrow ==
  /\ getState = "decoding"
  /\ response.body = "malformed"
  /\ failures' = Append(failures,
                         [error |-> "SyntaxError", attempt |-> Len(fetchCalls)])
  /\ getState' = "thrown"
  /\ getValue' = [error |-> "SyntaxError", attempt |-> Len(fetchCalls)]
  /\ response' = Undefined
  /\ UNCHANGED <<clientVars, getUrl, getI, fetchCalls, outcomes, warnings>>

\* await response.json() throws on a body that is not JSON
JsonReject ==
  /\ getState = "decoding"
  /\ response.body = "malformed"
  /\ UNCHANGED outcomes
  /\ Catch([error |-> "SyntaxError", attempt |-> Len(fetchCalls)])

\* Inputs of the HttpClient specification
Urls == {"http://example.org"}

OptionObjects ==
  LET full == [retries : 0 .. MaxRetries, timeout : {0, 2000}]
  IN {[k \in D |-> o[k]] : o \in full, D \in SUBSET {"retries", "timeout"}}

OptionValues == {Undefined} \cup OptionObjects

Responses ==
  {[status |-> st, statusText |-> StatusText(st), body |-> b] :
     st \in {200, 404, 500}, b \in {"data", "malformed"}}

HttpInit == HttpNone /\ ConcIdle /\ LinesIdle /\ FetchIdle /\ EnvIdle

HttpConstruct ==
  /\ \E options \in OptionValues : HttpClientConstructor(options)
  /\ UNCHANGED <<concVars, lineVars, fetchVars, envVars>>

HttpGetStart ==
  /\ \E url \in Urls : Get(url)
  /\ UNCHANGED <<concVars, lineVars, fetchVars, envVars>>

HttpDriverGet ==
  /\ \E url \in Urls, options \in OptionValues : HttpGet(url, options)
  /\ UNCHANGED <<concVars, lineVars, fetchVars, envVars>>

HttpFetchReject ==
  /\ \E kind \in {"Network error", "TimeoutError"} : FetchReject(kind)
  /\ UNCHANGED <<concVars, lineVars, fetchVars, envVars>>

HttpFetchResolve ==
  /\ \E resp \in Responses : FetchResolve(resp)
  /\ UNCHANGED <<concVars, lineVars, fetchVars, envVars>>

HttpJsonResolve ==
  /\ JsonResolve
  /\ UNCHANGED <<concVars, lineVars, fetchVars, envVars>>

HttpJsonReject ==
  /\ JsonReject
  /\ UNCHANGED <<concVars, lineVars, fetchVars, envVars>>

HttpNext ==
  \/ HttpConstruct
  \/ HttpGetStart
  \/ HttpDriverGet
  \/ HttpFetchReject
  \/ HttpFetchResolve
  \/ HttpJsonResolve
  \/ HttpJsonReject

SpecHttp == HttpInit /\ [][HttpNext]_vars

\* ------------------------------------------------- dataToLines (utils.js)
MaxEntries == 3

MaxQuotes == 2

\* Quote codes are strings, modelled as sequences of letter numbers
Codes == {<<1>>, <<1, 2>>, <<2>>, <<2, 1>>}

Null == [t |-> "null"]

Number(v) == [t |-> "number", v |-> v]

Rates == {Null, Undefined, Number(0), Number(1)}

Dates == {"2024-01-01"}

RECURSIVE LocaleCompare(_, _)
\* prevQuote.localeCompare(nextQuote): negative, zero or positive
LocaleCompare(a, b) ==
  IF a = << >> /\ b = << >> THEN 0
  ELSE IF a = << >> THEN -1
  ELSE IF b = << >> THEN 1
  ELSE IF Head(a) < Head(b) THEN -1
  ELSE IF Head(a) > Head(b) THEN 1
  ELSE LocaleCompare(Tail(a), Tail(b))

\* options.quotes.includes(quote)
Includes(qs, quote) == \E j \in 1 .. Len(qs) : qs[j] = quote

\* Faulty variant of Filter: no entry is dropped
FilterNone(entries, qs) == entries

\* .filter(([quote]) => options.quotes.includes(quote))
Filter(entries, qs) == SelectSeq(entries, LAMBDA e : Includes(qs, e[1]))

\* Faulty variant of Insert: no comparison, the element goes last
InsertLast(sorted, e) == Append(sorted, e)

\* Where a stable sort puts e into a sorted array: after every element the
\* comparator does not put behind it
Insert(sorted, e) ==
  LET k == Cardinality({j \in 1 .. Len(sorted) :
                          LocaleCompare(sorted[j][1], e[1]) <= 0})
  IN SubSeq(sorted, 1, k) \o <<e>> \o SubSeq(sorted, k + 1, Len(sorted))

RECURSIVE Sort(_)
\* .sort(([prevQuote], [nextQuote]) => prevQuote.localeCompare(nextQuote))
Sort(entries) ==
  IF entries = << >> THEN << >>
  ELSE Insert(Sort(SubSeq(entries, 1, Len(entries) - 1)), entries[Len(entries)])

\* Faulty variant of Falsy: rate ?? '' in place of rate || '', 0 is kept
FalsyNullish(rate) == rate.t \in {"null", "undefined"}

\* Is the value falsy: null, undefined and the number 0 are
Falsy(rate) == rate.t \in {"null", "undefined"} \/ (rate.t = "number" /\ rate.v = 0)

\* `${rate || ''}`
RateText(rate) == IF Falsy(rate) THEN "" ELSE ToString(rate.v)

\* `${data.date},${rate || ''}`, kept as its parts
FormatLine(date, rate) == <<date, ",", RateText(rate)>>

\* dataToLines(data, options)
DataToLines(d, qs) ==
  LET sorted == Sort(Filter(d.rates, qs))
  IN [j \in 1 .. Len(sorted) |->
        <<sorted[j][1], FormatLine(d.date, sorted[j][2])>>]

\* The sequences of at most n elements of S
SeqsUpTo(S, n) == UNION {[1 .. m -> S] : m \in 0 .. n}

\* The entries of an object: no key twice
EntryLists ==
  {es \in SeqsUpTo(Codes \X Rates, MaxEntries) :
     \A j, k \in 1 .. Len(es) : j # k => es[j][1] # es[k][1]}

Payloads == [date : Dates, rates : EntryLists]

QuoteLists == SeqsUpTo(Codes, MaxQuotes)

LinesInit ==
  /\ HttpNone
  /\ ConcIdle
  /\ FetchIdle
  /\ EnvIdle
  /\ data \in Payloads
  /\ quotes \in QuoteLists
  /\ lines = << >>
  /\ linesState = "input"

LinesCall ==
  /\ linesState = "input"
  /\ lines' = DataToLines(data, quotes)
  /\ linesState' = "output"
  /\ UNCHANGED <<data, quotes, concVars, httpVars, fetchVars, envVars>>

LinesNext == LinesCall

SpecLines == LinesInit /\ [][LinesNext]_vars

\* Specification of one Concurrency instance over abstract tasks
TaskLists == {[s \in 1..n |-> s - 1] : n \in 0..MaxTasks}

Widths == 1..MaxWidth

ConcInit == HttpNone /\ LinesIdle /\ FetchIdle /\ EnvIdle /\ \E tasks \in TaskLists : ConcConstructor(tasks)

ConcRun ==
  /\ runState = "new"
  /\ \E b \in Widths : Run(b)
  /\ UNCHANGED <<httpVars, lineVars, fetchVars, envVars>>

ConcTaskResolve ==
  /\ \E w \in DOMAIN executing : TaskResolve(w)
  /\ UNCHANGED <<httpVars, lineVars, fetchVars, envVars>>

ConcTaskReject ==
  /\ \E w \in DOMAIN executing : TaskReject(w)
  /\ UNCHANGED <<httpVars, lineVars, fetchVars, envVars>>

ConcAllReject ==
  /\ \E w \in DOMAIN executing : AllReject(w)
  /\ UNCHANGED <<httpVars, lineVars, fetchVars, envVars>>

ConcAllResolve == AllResolve /\ UNCHANGED <<httpVars, lineVars, fetchVars, envVars>>

ConcNext ==
  \/ ConcRun
  \/ ConcTaskResolve
  \/ ConcTaskReject
  \/ ConcAllReject
  \/ ConcAllResolve

SpecConc == ConcInit /\ [][ConcNext]_vars

\* The same under the assumption that every task that was called settles and
\* that the microtasks of run and of Promise.all are run
SpecConcFair ==
  /\ SpecConc
  /\ WF_vars(ConcRun)
  /\ WF_vars(ConcTaskResolve \/ ConcTaskReject)
  /\ WF_vars(ConcAllReject)
  /\ WF_vars(ConcAllResolve)

\* run called again on the same instance once the earlier run has settled
\* and all its chains have ended
MaxRuns == 2

ConcRunAgain ==
  /\ runState \in {"resolved", "rejected"}
  /\ Len(runCalls) < MaxRuns
  /\ \E b \in Widths : Run(b)
  /\ UNCHANGED <<httpVars, lineVars, fetchVars, envVars>>

ConcRerunNext ==
  \/ ConcRun
  \/ ConcRunAgain
  \/ ConcTaskResolve
  \/ ConcTaskReject
  \/ ConcAllReject
  \/ ConcAllResolve

SpecConcRerun == ConcInit /\ [][ConcRerunNext]_vars

\* ------------------------------- Fetcher (utils.js), fetchLines (index.js)
FetcherBatchSize == 4

DriverBatchSize == 100

\* The batchSize the caller passes to Concurrency.run
BatchSizeOf(caller) ==
  IF caller = "Fetcher" THEN FetcherBatchSize ELSE DriverBatchSize

\* The first argument of the handler: options.path(quote) in Fetcher.run,
\* `${CONFIG.basePath}/EUR/${options.name(quote)}` in fetchLines
PathOf(caller, quote) ==
  IF caller = "Fetcher" THEN <<"path", quote>>
  ELSE <<"./data/v1", "/EUR/", <<"name", quote>>>>

\* lines.map(([quote, line]) => ...): one task per line, a call of
\* handler(path, line)
TasksOf(caller, ls) ==
  [j \in 1 .. Len(ls) |->
     [path |-> PathOf(caller, ls[j][1]), line |-> ls[j][2]]]

\* run(url, options) up to its first await: the call of the client's get
FetcherRun(url) ==
  /\ fState = "idle"
  /\ clientCalls' = Append(clientCalls, url)
  /\ fState' = "getting"
  /\ UNCHANGED <<fCaller, fValue, clientError, pathCalls, lineVars, concVars>>

\* await get(url) returns the payload: dataToLines, the tasks, new
\* Concurrency(tasks) and its run up to the await of Promise.all
ClientResolve(d) ==
  /\ fState = "getting"
  /\ LET ls == DataToLines(d, quotes)
         tasks == TasksOf(fCaller, ls)
     IN /\ data' = d
        /\ lines' = ls
        /\ linesState' = "output"
        /\ pathCalls' = pathCalls \o [j \in 1 .. Len(ls) |-> ls[j][1]]
        /\ promises' = tasks
        /\ results' = << >>
        /\ index' = 0
        /\ runValue' = Undefined
        /\ writes' = [s \in 0 .. (Len(tasks) - 1) |-> 0]
        /\ claimed' = << >>
        /\ lateSettled' = 0
        /\ lateStarted' = 0
        /\ runCalls' = <<[invoked |-> [s \in 0 .. (Len(tasks) - 1) |-> 0],
                           index |-> 0]>>
        /\ RunLoop(tasks, [s \in 0 .. (Len(tasks) - 1) |-> 0], 0,
                   BatchSizeOf(fCaller))
  /\ fState' = "running"
  /\ UNCHANGED <<fCaller, fValue, clientCalls, clientError, quotes>>

\* Faulty variant of ClientReject: the error is wrapped in a new one
ClientRejectWrapped(error) ==
  /\ fState = "getting"
  /\ clientError' = error
  /\ fState' = "rejected"
  /\ fValue' = [error |-> "Fetcher failed", cause |-> error]
  /\ UNCHANGED <<fCaller, clientCalls, pathCalls, lineVars, concVars>>

\* await get(url) throws: run rejects with the error
ClientReject(error) ==
  /\ fState = "getting"
  /\ clientError' = error
  /\ fState' = "rejected"
  /\ fValue' = error
  /\ UNCHANGED <<fCaller, clientCalls, pathCalls, lineVars, concVars>>

\* await new Concurrency(tasks).run(...) returns or throws
FetcherSettle ==
  /\ fState = "running"
  /\ runState \in {"resolved", "rejected"}
  /\ IF runState = "resolved"
     THEN fState' = "resolved" /\ UNCHANGED fValue
     ELSE fState' = "rejected" /\ fValue' = runValue
  /\ UNCHANGED <<fCaller, clientCalls, clientError, pathCalls, lineVars,
                 concVars>>

\* Inputs of the Fetcher specification
FetchPayloads ==
  {[date |-> "2024-01-01", rates |-> es] :
     es \in {<< >>,
             <<<<<<2>>, Number(1)>>, <<<<1>>, Number(1)>>>>,
             <<<<<<2, 1>>, Number(1)>>, <<<<2>>, Number(0)>>,
               <<<<1, 2>>, Null>>, <<<<1>>, Number(1)>>>>}}

FetchQuoteLists ==
  {<< >>, <<<<2>>, <<1>>>>, <<<<1>>, <<2, 1>>, <<1, 2>>>>,
   <<<<2>>, <<1>>, <<2, 1>>, <<1, 2>>>>}

ClientErrors == {[error |-> "Network error", attempt |-> 1]}

FetchInit ==
  /\ HttpNone
  /\ ConcIdle
  /\ EnvIdle
  /\ data = [date |-> "", rates |-> << >>]
  /\ quotes \in FetchQuoteLists
  /\ lines = << >>
  /\ linesState = "input"
  /\ fCaller \in {"Fetcher", "fetchLines"}
  /\ fState = "idle"
  /\ fValue = Undefined
  /\ clientCalls = << >>
  /\ clientError = Undefined
  /\ pathCalls = << >>

FetchRun ==
  /\ \E url \in Urls : FetcherRun(url)
  /\ UNCHANGED <<httpVars, envVars>>

FetchClientResolve ==
  /\ \E d \in FetchPayloads : ClientResolve(d)
  /\ UNCHANGED <<httpVars, envVars>>

FetchClientReject ==
  /\ \E e \in ClientErrors : ClientReject(e)
  /\ UNCHANGED <<httpVars, envVars>>

FetchSettle ==
  /\ FetcherSettle
  /\ UNCHANGED <<httpVars, envVars>>

FetchNext ==
  \/ FetchRun
  \/ FetchClientResolve
  \/ FetchClientReject
  \/ FetchSettle
  \/ ConcTaskResolve
  \/ ConcTaskReject
  \/ ConcAllReject
  \/ ConcAllResolve

SpecFetch == FetchInit /\ [][FetchNext]_vars

\* ------------------------------------------------------ env (index.js)
\* value === undefined: the variable is not set
IsUndefined(env, name) == name \notin DOMAIN env

\* new Error(`"${name}" environment variable is not defined`)
EnvError(name) ==
  [error |-> "environment variable is not defined", name |-> name]

\* process.env[name] = value, as the tests do before they call env
SetEnv(name, value) ==
  /\ envState = "idle"
  /\ processEnv' = [n \in (DOMAIN processEnv) \cup {name} |->
                       IF n = name THEN value ELSE processEnv[n]]
  /\ UNCHANGED <<envName, envState, envValue>>

\* env(name)
Env(name) ==
  /\ envState = "idle"
  /\ envName' = name
  /\ IF IsUndefined(processEnv, name)
     THEN /\ envState' = "thrown"
          /\ envValue' = EnvError(name)
     ELSE /\ envState' = "returned"
          /\ envValue' = [value |-> processEnv[name]]
  /\ UNCHANGED processEnv

\* Inputs of the env specification
EnvNames == {"TEST_VAR", "EMPTY_VAR", "AG_BASE_URL"}

EnvValues == {"", "0", "false", "test_value"}

EnvInit == HttpNone /\ ConcIdle /\ LinesIdle /\ FetchIdle /\ EnvIdle

EnvSet ==
  /\ \E name \in EnvNames, value \in EnvValues : SetEnv(name, value)
  /\ UNCHANGED <<concVars, httpVars, lineVars, fetchVars>>

EnvCall ==
  /\ \E name \in EnvNames : Env(name)
  /\ UNCHANGED <<concVars, httpVars, lineVars, fetchVars>>

EnvNext ==
  \/ EnvSet
  \/ EnvCall

SpecEnv == EnvInit /\ [][EnvNext]_vars

\* ------------------------------------------------------------ claims
\* Some call of some task has rejected
SomeTaskFailed == \E w \in DOMAIN executing : executing[w].st = "rejected"

\* C1: when all tasks succeed, run resolves to a vector of length n whose
\* element i is a value produced by task i, whatever the completion order
\* and whatever the width (also width > n); for n = 0 it is the empty vector.
C1_ResultsInOrder ==
  runState = "resolved" =>
    /\ Len(runValue) = NumTasks
    /\ \A i \in 0 .. (NumTasks - 1) :
          /\ runValue[i + 1] # Undefined
          /\ runValue[i + 1].task = i

C1_Witness ==
  /\ runState = "resolved"
  /\ NumTasks = 3
  /\ runBatch = 2
  /\ runValue = <<TaskValue(0, 1), TaskValue(1, 2), TaskValue(2, 1)>>

\* C2: at every moment of a run of width w over n tasks, the number of task
\* calls that have started and not settled is at most min(w, n).
C2_ConcurrencyBound ==
  runState # "new" => concurrent <= Min(runBatch, NumTasks)

C2_Witness ==
  /\ NumTasks = 3
  /\ runBatch = 2
  /\ concurrent = 2
  /\ index = 2

\* C3: if a task fails the run never resolves; it rejects, and the error is
\* the error of a task call that failed.
C3_RejectsOnFailure ==
  /\ SomeTaskFailed => runState \in {"awaiting", "rejected"}
  /\ runState = "rejected" =>
        \E w \in DOMAIN executing :
           /\ executing[w].st = "rejected"
           /\ runValue = TaskError(executing[w].slot, executing[w].call)

C3_Witness ==
  /\ runState = "rejected"
  /\ NumTasks = 3
  /\ runValue.task = 1
  /\ 0 \in DOMAIN results

\* C5: with retries = r, when the request fails exactly r times and then
\* succeeds with a 2xx response, get makes exactly r + 1 attempts, emits
\* exactly r warnings and returns the decoded body of the successful attempt.
C5_RetryThenSuccess ==
  (getState = "returned" /\ Len(failures) = hcRetries) =>
    /\ Len(fetchCalls) = hcRetries + 1
    /\ Len(warnings) = hcRetries
    /\ Len(outcomes) = hcRetries + 1
    /\ outcomes[hcRetries + 1].status \in 200 .. 299
    /\ getValue = [json |-> "data", attempt |-> hcRetries + 1]

C5_Witness ==
  /\ getState = "returned"
  /\ hcKind = "HttpClient"
  /\ hcRetries = 2
  /\ Len(failures) = 2
  /\ Len(warnings) = 2

\* C6: with retries = r, when every attempt fails, get makes exactly r + 1
\* attempts and then rejects with the error of the last attempt unchanged;
\* it never makes more than r + 1 attempts and never returns a value.
C6_ThrowsAfterRetries ==
  /\ Len(fetchCalls) <= hcRetries + 1
  /\ (getState \in {"returned", "thrown"} /\ Len(failures) = Len(fetchCalls)) =>
        /\ getState = "thrown"
        /\ Len(fetchCalls) = hcRetries + 1
        /\ getValue = failures[hcRetries + 1]
        /\ getValue.error # "HTTP" => getValue.attempt = hcRetries + 1
  /\ getState = "thrown" => Len(failures) = Len(fetchCalls)

C6_Witness ==
  /\ getState = "thrown"
  /\ hcKind = "HttpClient"
  /\ hcRetries = 1
  /\ Len(fetchCalls) = 2
  /\ getValue = [error |-> "Network error", attempt |-> 2]

\* C7: a non-2xx response is a failure of its attempt, handled like a
\* transport failure: it uses one attempt of the same budget (a warning and
\* a new attempt when it is not the last attempt), and on the last attempt
\* get rejects with an error carrying the status code, status text and URL.
C7_StatusIsFailure ==
  \A k \in 1 .. Len(outcomes) :
    (outcomes[k].settled = "response" /\ outcomes[k].status \notin 200 .. 299) =>
      /\ k <= hcRetries + 1
      /\ k <= Len(failures)
      /\ failures[k] = [error |-> "HTTP", status |-> outcomes[k].status,
                        statusText |-> StatusText(outcomes[k].status),
                        url |-> getUrl]
      /\ k <= hcRetries => (Len(warnings) >= k /\ Len(fetchCalls) >= k + 1)
      /\ k = hcRetries + 1 => (getState = "thrown" /\ getValue = failures[k])

C7_Witness ==
  /\ getState = "thrown"
  /\ hcRetries = 1
  /\ Len(outcomes) = 2
  /\ outcomes[1].status = 500
  /\ outcomes[2].status = 404
  /\ getValue.error = "HTTP"
  /\ getValue.status = 404
  /\ Len(warnings) = 1

\* C8: an HttpClient constructed with no options argument is created with
\* retries = 0 and timeout = 10000 ms, so that get makes exactly one attempt;
\* an options object lacking retries or timeout takes the default for it.
C8_DefaultOptions ==
  (hcKind = "HttpClient" /\ hcState # "none") =>
    /\ hcState = "constructed"
    /\ hcRetries = (IF hcOptions # Undefined /\ "retries" \in DOMAIN hcOptions
                    THEN hcOptions.retries ELSE 0)
    /\ hcTimeout = (IF hcOptions # Undefined /\ "timeout" \in DOMAIN hcOptions
                         /\ hcOptions.timeout # 0
                    THEN hcOptions.timeout ELSE 10000)
    /\ (hcOptions = Undefined /\ getState \in {"returned", "thrown"}) =>
          Len(fetchCalls) = 1

\* The keys of the payload, and those of them the quote list includes
PayloadKeys == {data.rates[j][1] : j \in 1 .. Len(data.rates)}

KeptKeys == {c \in PayloadKeys : \E j \in 1 .. Len(quotes) : quotes[j] = c}

\* C10: dataToLines returns exactly one pair per payload key that is in the
\* quote set and none for the other keys (so an empty or disjoint quote set
\* gives the empty sequence), in ascending order of quoteCode.
C10_FilteredAndSorted ==
  linesState = "output" =>
    /\ Len(lines) = Cardinality(KeptKeys)
    /\ {lines[j][1] : j \in 1 .. Len(lines)} = KeptKeys
    /\ \A j \in 1 .. (Len(lines) - 1) :
          LocaleCompare(lines[j][1], lines[j + 1][1]) < 0

C10_Witness ==
  /\ linesState = "output"
  /\ Len(data.rates) = 3
  /\ data.rates[1][1] = <<2>>
  /\ data.rates[2][1] = <<1, 2>>
  /\ quotes = <<<<2>>, <<1, 2>>>>
  /\ Len(lines) = 2
  /\ lines[1][1] = <<1, 2>>

\* C4: when the client call and every handler call succeed, the handler is
\* called exactly once per line of dataToLines, with (path(quoteCode),
\* formattedLine) of that line, so as many times as there are lines, for
\* either width (4 or 100).
C4_HandlerOncePerLine ==
  fState = "resolved" =>
    /\ NumTasks = Len(lines)
    /\ \A j \in 1 .. Len(lines) :
          /\ promises[j] = [path |-> PathOf(fCaller, lines[j][1]),
                            line |-> lines[j][2]]
          /\ invoked[j - 1] = 1

\* C9: if the client's get fails, run rejects with that same error after
\* exactly one call of get, and a failure of a handler call is the failure
\* of run as well.
C9_ErrorsPropagate ==
  /\ Len(clientCalls) <= 1
  /\ clientError # Undefined =>
        /\ fState = "rejected"
        /\ fValue = clientError
        /\ Len(clientCalls) = 1
  /\ SomeTaskFailed => fState \in {"running", "rejected"}
  /\ (fState = "rejected" /\ clientError = Undefined) =>
        \E w \in DOMAIN executing :
           /\ executing[w].st = "rejected"
           /\ fValue = TaskError(executing[w].slot, executing[w].call)

C9_Witness ==
  /\ fState = "rejected"
  /\ fCaller = "Fetcher"
  /\ clientError = [error |-> "Network error", attempt |-> 1]
  /\ fValue = clientError
  /\ clientCalls = <<"http://example.org">>

\* The rate the payload has under a key
RateOf(key) ==
  LET j == CHOOSE j \in 1 .. Len(data.rates) : data.rates[j][1] = key
  IN data.rates[j][2]

\* C11: every line of dataToLines is "<date>,<rate>", the part after the
\* comma being the string form of the rate when the rate is truthy and the
\* empty string when it is null, undefined or 0; a rate of 0 and a missing
\* rate give the same line.
C11_FalsyRateIsEmpty ==
  linesState = "output" =>
    \A j \in 1 .. Len(lines) :
      LET rate == RateOf(lines[j][1])
      IN /\ lines[j][2][1] = data.date
         /\ lines[j][2][2] = ","
         /\ rate.t \in {"null", "undefined"} => lines[j][2][3] = ""
         /\ rate.t = "number" =>
               lines[j][2][3] = (IF rate.v = 0 THEN "" ELSE ToString(rate.v))

C11_Witness ==
  /\ linesState = "output"
  /\ Len(lines) = 2
  /\ RateOf(lines[1][1]) = Number(0)
  /\ RateOf(lines[2][1]) = Null
  /\ lines[1][2] = lines[2][2]
  /\ lines[1][2] = <<"2024-01-01", ",", "">>

\* C12: when no payload entry passes the quote filter (empty or disjoint
\* quote set), run makes its one client call and then neither path nor
\* handler is called, and run does not fail: it resolves.
C12_NoLinesNoCalls ==
  (linesState = "output" /\ KeptKeys = {}) =>
    /\ Len(clientCalls) = 1
    /\ pathCalls = << >>
    /\ NumTasks = 0
    /\ \A s \in DOMAIN invoked : invoked[s] = 0
    /\ fState \in {"running", "resolved"}
    /\ runState \in {"awaiting", "resolved"}
    /\ runState = "resolved" => runValue = << >>

C12_Witness ==
  /\ fState = "resolved"
  /\ Len(data.rates) = 2
  /\ quotes = << >>
  /\ pathCalls = << >>
  /\ Len(clientCalls) = 1

\* C13: env(name) returns the value of the variable when it is set to a
\* non-empty string (also "false" and "0"), and throws '"<name>" environment
\* variable is not defined' when the variable is not set and when it is set
\* to the empty string.
C13_EnvRequiresNonEmpty ==
  envState # "idle" =>
    IF envName \in DOMAIN processEnv /\ processEnv[envName] # ""
    THEN envState = "returned" /\ envValue = [value |-> processEnv[envName]]
    ELSE /\ envState = "thrown"
         /\ envValue = [error |-> "environment variable is not defined",
                         name |-> envName]

\* C14: during a run every slot of #results is assigned at most once, for
\* every n, every width and every order of completion.
C14_SlotWrittenOnce == \A s \in DOMAIN writes : writes[s] <= 1

\* C15: at the start of a run #index is the width of the initial window
\* minus one and it only grows afterwards, so that every slot handed out
\* through #index lies outside the initial slots 0 .. effectiveWidth - 1.
C15_CursorStartsAfterWindow ==
  runState # "new" =>
    LET effectiveWidth == IF runBatch < NumTasks THEN runBatch ELSE NumTasks
    IN /\ index >= effectiveWidth - 1
       /\ \A k \in 1 .. Len(claimed) : claimed[k] >= effectiveWidth

\* C16: #index never exceeds the number of tasks, no slot >= n is claimed
\* or called, and a chain that finishes a task when #index has reached the
\* last index ends without claiming a slot.
C16_CursorInRange ==
  /\ [](/\ index <= NumTasks
        /\ \A k \in 1 .. Len(claimed) : claimed[k] < NumTasks
        /\ \A w \in DOMAIN executing : executing[w].slot < NumTasks)
  /\ [][(runState # "new" /\ index >= NumTasks - 1) =>
          (index' = index /\ claimed' = claimed /\ invoked' = invoked)]_vars

C16_Witness ==
  /\ NumTasks = 3
  /\ runBatch = 2
  /\ index = 2
  /\ claimed = <<1, 2>>
  /\ \A w \in DOMAIN executing : executing[w].st = "fulfilled"

\* C17: reading the next slot from #index is atomic with respect to the
\* other chains: no two chains get the same slot index from #index.
C17_NoSlotClaimedTwice ==
  \A j, k \in 1 .. Len(claimed) : j # k => claimed[j] # claimed[k]

C17_Witness ==
  /\ NumTasks = 3
  /\ runBatch = 3
  /\ claimed = <<1, 2>>
  /\ executing[2].slot = 1
  /\ executing[0].slot = 2
  /\ executing[2].st = "pending"
  /\ executing[0].st = "pending"

\* C20: when a task fails and run rejects, the task calls of the other
\* chains that are pending are not cancelled: they stay pending until they
\* settle by themselves, which they do after the rejection, and run stays
\* rejected with the error, no result is delivered.
C20_NoCancellation ==
  /\ [][(runState = "awaiting" /\ runState' = "rejected") =>
          (executing' = executing /\ concurrent' = concurrent)]_vars
  /\ [][runState = "rejected" =>
          /\ runState' = "rejected"
          /\ runValue' = runValue
          /\ \A w \in DOMAIN executing :
                executing[w].st = "pending" =>
                  executing'[w].st \in {"pending", "fulfilled", "rejected"}]_vars
  /\ (runState = "rejected" /\ concurrent > 0) ~>
        (runState = "rejected" /\ concurrent = 0 /\ lateSettled > 0)

C20_Witness ==
  /\ runState = "rejected"
  /\ NumTasks = 3
  /\ runBatch = 3
  /\ runValue = TaskError(0, 1)
  /\ lateSettled = 3
  /\ concurrent = 0
  /\ 2 \in DOMAIN results

\* C18: within one get the attempts are strictly sequential: an attempt is
\* issued only after all earlier ones have failed, at most one is
\* outstanding, and the next attempt is issued in the step that handles the
\* failure, with no delay step in between.
C18_AttemptsSequential ==
  /\ Len(outcomes) <= Len(fetchCalls)
  /\ Len(fetchCalls) <= Len(outcomes) + 1
  /\ getState = "fetching" => Len(fetchCalls) = Len(outcomes) + 1
  /\ \/ getState = "idle" /\ fetchCalls = << >>
     \/ getState = "thrown" /\ Len(fetchCalls) = Len(failures)
     \/ getState \notin {"idle", "thrown"} /\ Len(fetchCalls) = Len(failures) + 1

C18_Witness ==
  /\ getState = "fetching"
  /\ hcKind = "httpGet"
  /\ Len(fetchCalls) = 3
  /\ Len(failures) = 2
  /\ Len(outcomes) = 2

\* C19 as stated: once an attempt has received a 2xx response no further
\* attempt is made, whatever the outcome of decoding the body.
C19_NoAttemptAfter2xx ==
  [][(\E k \in 1 .. Len(outcomes) : outcomes[k].status \in 200 .. 299) =>
       fetchCalls' = fetchCalls]_vars

\* C19 amended: once an attempt has received a 2xx response and its body has
\* been decoded, get returns the decoded body and makes no further attempt,
\* whatever is left of the retry budget; when decoding fails the attempt
\* counts as failed and is retried like any other failure.
C19_NoAttemptAfterDecoded ==
  /\ \A k \in 1 .. Len(outcomes) :
        outcomes[k].status \in 200 .. 299 =>
          /\ k < Len(fetchCalls) =>
                (k <= Len(failures) /\ failures[k].error = "SyntaxError")
          /\ (k <= Len(failures) /\ k <= hcRetries) => Len(fetchCalls) >= k + 1
  /\ getState = "returned" =>
        /\ Len(outcomes) = Len(fetchCalls)
        /\ outcomes[Len(outcomes)].status \in 200 .. 299
        /\ getValue = [json |-> "data", attempt |-> Len(fetchCalls)]

C19_Witness ==
  /\ getState = "returned"
  /\ hcRetries = 2
  /\ Len(outcomes) = 2
  /\ outcomes[1].status = 200
  /\ failures = <<[error |-> "SyntaxError", attempt |-> 1]>>
  /\ getValue = [json |-> "data", attempt |-> 2]

\* C21: if every task that is called resolves, run resolves in the end, and
\* only after every chain has ended: when run resolves no task call is
\* pending and every slot 0 .. n-1 holds a result.
C21_ResolvesWhenAllDone ==
  /\ [](runState = "resolved" =>
          /\ concurrent = 0
          /\ \A w \in DOMAIN executing : executing[w].st = "fulfilled"
          /\ \A i \in 0 .. (NumTasks - 1) : i \in DOMAIN results
          /\ Len(runValue) = NumTasks)
  /\ <>(runState = "resolved"
          \/ \E w \in DOMAIN executing : executing[w].st = "rejected")

C21_Witness ==
  /\ runState = "resolved"
  /\ NumTasks = 3
  /\ runBatch = 2
  /\ concurrent = 0
  /\ DOMAIN results = {0, 1, 2}
  /\ index = 2

\* C22: a second run on the same instance starts from a fresh #index and an
\* empty #results, so that it calls every task again and every element of the
\* array it returns was produced by a task call made during that second run.
C22_SecondRunFresh ==
  (Len(runCalls) = 2 /\ runState = "resolved") =>
    /\ Len(runValue) = NumTasks
    /\ \A slot \in 0 .. (NumTasks - 1) :
         /\ invoked[slot] > runCalls[2].invoked[slot]
         /\ runValue[slot + 1] # Undefined
         /\ runValue[slot + 1].call > runCalls[2].invoked[slot]

\* C23: once a task has failed and run has rejected, no task that had not
\* been started by then is started: neither the failing chain nor the
\* surviving chains call a new task.
C23_NoStartAfterReject ==
  [][runState = "rejected" =>
       \A s \in DOMAIN invoked : invoked[s] = 0 => invoked'[s] = 0]_vars

\* C23 as amended: the chain whose task failed ends there, it claims no slot
\* and calls no task, then or later; but a surviving chain whose task
\* resolves after run has rejected still claims the next slot and calls its
\* task for as long as #index is below n - 1.
C23_SurvivorsKeepClaiming ==
  /\ [][\A w \in DOMAIN executing :
          executing[w].st = "rejected" => executing'[w] = executing[w]]_vars
  /\ [][(\E w \in DOMAIN executing :
           executing[w].st = "pending" /\ executing'[w].st = "rejected") =>
          (index' = index /\ invoked' = invoked /\ claimed' = claimed)]_vars
  /\ [][\A w \in DOMAIN executing :
          (/\ runState = "rejected"
           /\ executing[w].st = "pending"
           /\ executing'[w] # executing[w]
           /\ executing'[w].st # "rejected"
           /\ index < NumTasks - 1) =>
            /\ index' = index + 1
            /\ claimed' = Append(claimed, index + 1)
            /\ invoked' = [invoked EXCEPT ![index + 1] = @ + 1]
            /\ executing'[w] = [slot |-> index + 1,
                                call |-> invoked[index + 1] + 1,
                                st |-> "pending"]]_vars

C23_Witness ==
  /\ runState = "rejected"
  /\ NumTasks = 3
  /\ runBatch = 2
  /\ runValue = TaskError(0, 1)
  /\ lateStarted = 2
  /\ invoked[2] = 1
  /\ 2 \in DOMAIN results
  /\ concurrent = 0

====
